---- MODULE Spec2Model ----
(***************************************************************************)
(* Model of src/code4.py: class Graph with add_edge, bfs,                  *)
(* bfs_all_components and reconstruct_path.  Python lists that are indexed *)
(* by vertex (visited, parent, level) are functions on 0..V-1 and are read *)
(* and written with Python's index rule: an index k with -V <= k < V       *)
(* denotes slot k (k >= 0) or slot k + V (k < 0), any other index raises   *)
(* IndexError.  Lists that are only appended to or popped (queue,          *)
(* traversal_order, component, path) are sequences.  Every while-loop      *)
(* iteration is one action, so that termination is a property of the       *)
(* behaviours and not of the way the model is written.                     *)
(***************************************************************************)
EXTENDS Integers, Sequences, FiniteSets, TLC

\* Bounds of the model (not program constants).
MaxV == 3
MaxEntries == 3
\* Bound on the graphs of the termination check.
TermEntries == 2

VARIABLES
    V,                \* self.V
    adj_list,         \* self.adj_list (absent key = empty list)
    pc,               \* position of the single thread of control
    start,            \* argument start of bfs / reconstruct_path
    visited,          \* local of bfs and of bfs_all_components
    parent,           \* local of bfs, argument of reconstruct_path
    level,            \* local of bfs
    traversal_order,  \* local of bfs
    queue,            \* local of bfs and of bfs_all_components
    i,                \* loop variable of bfs_all_components
    component,        \* local of bfs_all_components
    all_components,   \* local of bfs_all_components
    endArg,           \* argument end of reconstruct_path, as passed
    end,              \* variable end of reconstruct_path, as it walks
    path,             \* local of reconstruct_path
    ret               \* value returned by reconstruct_path

vars == <<V, adj_list, pc, start, visited, parent, level, traversal_order,
          queue, i, component, all_components, endArg, end, path, ret>>

Vertices == 0 .. (V - 1)

\* Arguments tried for start and end: the valid indices, the negative
\* indices Python wraps, and the first index beyond either side.
Indices == (0 - V - 1) .. V

----------------------------------------------------------------------------
\* Python list indexing on a list of length V.

InRange(k) == (0 - V) <= k /\ k < V

Norm(k) == IF k < 0 THEN k + V ELSE k

PyGet(arr, k) == arr[Norm(k)]

PySet(arr, k, x) == [arr EXCEPT ![Norm(k)] = x]

\* defaultdict(list): a key that was never touched reads as the empty list.
Adj(u) == IF u \in DOMAIN adj_list THEN adj_list[u] ELSE << >>

Fill(x) == [u \in Vertices |-> x]

RECURSIVE Reverse(_)
Reverse(s) == IF s = << >> THEN << >> ELSE Append(Reverse(Tail(s)), Head(s))

Range(s) == {s[k] : k \in 1 .. Len(s)}

NoDup(s) == \A a, b \in 1 .. Len(s) : a # b => s[a] # s[b]

----------------------------------------------------------------------------
\* Graph.add_edge

add_edge(a, u, v, bidirectional) ==
    LET a1 == [a EXCEPT ![u] = Append(@, v)]
    IN  IF bidirectional THEN [a1 EXCEPT ![v] = Append(@, u)] ELSE a1

RECURSIVE SumLen(_, _)
SumLen(a, S) ==
    IF S = {} THEN 0
    ELSE LET u == CHOOSE x \in S : TRUE IN Len(a[u]) + SumLen(a, S \ {u})

EntryCount == SumLen(adj_list, Vertices)

----------------------------------------------------------------------------
\* Graph.bfs

\* Variant: levels counted from 1 at the source.
bfs_initLevelOne(s) ==
    [visited         |-> PySet(Fill(FALSE), s, TRUE),
     parent          |-> Fill(-1),
     level           |-> PySet(Fill(-1), s, 1),
     traversal_order |-> << >>,
     queue           |-> << s >>]

bfs_init(s) ==
    [visited         |-> PySet(Fill(FALSE), s, TRUE),
     parent          |-> Fill(-1),
     level           |-> PySet(Fill(-1), s, 0),
     traversal_order |-> << >>,
     queue           |-> << s >>]

popleft(q) == [item |-> Head(q), rest |-> Tail(q)]

\* Variant: the neighbor gets its discoverer's level, without the + 1.
DiscoverSameLevel(st, current, neighbor) ==
    [st EXCEPT !.visited = PySet(@, neighbor, TRUE),
               !.parent  = PySet(@, neighbor, current),
               !.level   = PySet(@, neighbor, PyGet(st.level, current)),
               !.queue   = Append(@, neighbor)]

Discover(st, current, neighbor) ==
    [st EXCEPT !.visited = PySet(@, neighbor, TRUE),
               !.parent  = PySet(@, neighbor, current),
               !.level   = PySet(@, neighbor, PyGet(st.level, current) + 1),
               !.queue   = Append(@, neighbor)]

\* Variant: the for loop leaves after its first neighbor.
VisitNeighborsFirstOnly(st, current, nbrs) ==
    IF nbrs = << >> THEN st
    ELSE IF ~PyGet(st.visited, Head(nbrs))
         THEN [st EXCEPT !.visited = PySet(@, Head(nbrs), TRUE),
                         !.parent  = PySet(@, Head(nbrs), current),
                         !.level   = PySet(@, Head(nbrs),
                                           PyGet(st.level, current) + 1),
                         !.queue   = Append(@, Head(nbrs))]
         ELSE st

\* Variant: the level is assigned outside the visited test, so a neighbor
\* met again is relabelled.
RECURSIVE VisitNeighborsRelabel(_, _, _)
VisitNeighborsRelabel(st, current, nbrs) ==
    IF nbrs = << >> THEN st
    ELSE LET neighbor == Head(nbrs)
             lv == PyGet(st.level, current) + 1
             st1 == IF ~PyGet(st.visited, neighbor)
                    THEN [st EXCEPT !.visited = PySet(@, neighbor, TRUE),
                                    !.parent  = PySet(@, neighbor, current),
                                    !.level   = PySet(@, neighbor, lv),
                                    !.queue   = Append(@, neighbor)]
                    ELSE [st EXCEPT !.level = PySet(@, neighbor, lv)]
         IN  VisitNeighborsRelabel(st1, current, Tail(nbrs))

RECURSIVE VisitNeighbors(_, _, _)
VisitNeighbors(st, current, nbrs) ==
    IF nbrs = << >> THEN st
    ELSE LET neighbor == Head(nbrs)
             st1 == IF ~PyGet(st.visited, neighbor)
                    THEN Discover(st, current, neighbor)
                    ELSE st
         IN  VisitNeighbors(st1, current, Tail(nbrs))

bfs_iter(st) ==
    LET p == popleft(st.queue)
        st1 == [st EXCEPT !.queue = p.rest,
                          !.traversal_order = Append(@, p.item)]
    IN  VisitNeighbors(st1, p.item, Adj(p.item))

RECURSIVE bfs_run(_)
bfs_run(st) == IF st.queue = << >> THEN st ELSE bfs_run(bfs_iter(st))

bfs(s) == bfs_run(bfs_init(s))

BfsFrame ==
    [visited |-> visited, parent |-> parent, level |-> level,
     traversal_order |-> traversal_order, queue |-> queue]

----------------------------------------------------------------------------
\* Graph.bfs_all_components

\* Variant: the root is enqueued without being marked visited.
comp_seedNoMark(vis, root) ==
    [visited |-> vis, queue |-> << root >>, component |-> << >>]

comp_seed(vis, root) ==
    [visited |-> PySet(vis, root, TRUE), queue |-> << root >>,
     component |-> << >>]

\* Variant: the for loop leaves after its first neighbor.
CompVisitNeighborsFirstOnly(st, nbrs) ==
    IF nbrs = << >> THEN st
    ELSE IF ~PyGet(st.visited, Head(nbrs))
         THEN [st EXCEPT !.visited = PySet(@, Head(nbrs), TRUE),
                         !.queue = Append(@, Head(nbrs))]
         ELSE st

RECURSIVE CompVisitNeighbors(_, _)
CompVisitNeighbors(st, nbrs) ==
    IF nbrs = << >> THEN st
    ELSE LET neighbor == Head(nbrs)
             st1 == IF ~PyGet(st.visited, neighbor)
                    THEN [st EXCEPT !.visited = PySet(@, neighbor, TRUE),
                                    !.queue = Append(@, neighbor)]
                    ELSE st
         IN  CompVisitNeighbors(st1, Tail(nbrs))

comp_iter(st) ==
    LET p == popleft(st.queue)
        st1 == [st EXCEPT !.queue = p.rest,
                          !.component = Append(@, p.item)]
    IN  CompVisitNeighbors(st1, Adj(p.item))

\* Variant: the outer loop starts a traversal at every index.
NeedsRootAlways(vis, root) == TRUE

NeedsRoot(vis, root) == ~PyGet(vis, root)

CompFrame == [visited |-> visited, queue |-> queue, component |-> component]

----------------------------------------------------------------------------
\* Graph.reconstruct_path

\* Variant: the collected list is not reversed.
FinishPathNoReverse(p) == p

FinishPath(p) == Reverse(p)

\* Variant: the test looks at the last element of the list.
ReturnPathLast(p, s) == IF p[Len(p)] = s THEN p ELSE << >>

ReturnPath(p, s) == IF p[1] = s THEN p ELSE << >>

----------------------------------------------------------------------------
\* The state machine.

Init ==
    /\ V \in 0 .. MaxV
    /\ adj_list = [u \in 0 .. (V - 1) |-> << >>]
    /\ pc = "idle"
    /\ start = 0
    /\ visited = [u \in 0 .. (V - 1) |-> FALSE]
    /\ parent = [u \in 0 .. (V - 1) |-> -1]
    /\ level = [u \in 0 .. (V - 1) |-> -1]
    /\ traversal_order = << >>
    /\ queue = << >>
    /\ i = 0
    /\ component = << >>
    /\ all_components = << >>
    /\ endArg = 0
    /\ end = 0
    /\ path = << >>
    /\ ret = << >>

BfsVars == <<start, parent, level, traversal_order>>
CompVars == <<i, component, all_components>>
PathVars == <<endArg, end, path, ret>>

AddEdgeWithin(bound, u, v, bidirectional) ==
    /\ pc = "idle"
    /\ EntryCount + (IF bidirectional THEN 2 ELSE 1) <= bound
    /\ adj_list' = add_edge(adj_list, u, v, bidirectional)
    /\ UNCHANGED <<V, pc, visited, queue, BfsVars, CompVars, PathVars>>

AddEdge(u, v, bidirectional) == AddEdgeWithin(MaxEntries, u, v, bidirectional)

CallBfs(s) ==
    /\ pc = "idle"
    /\ start' = s
    /\ IF InRange(s)
       THEN LET st == bfs_init(s)
            IN  /\ visited' = st.visited
                /\ parent' = st.parent
                /\ level' = st.level
                /\ traversal_order' = st.traversal_order
                /\ queue' = st.queue
                /\ pc' = "bfs"
       ELSE \* visited[start] = True raises IndexError (line 23)
            /\ pc' = "bfs_error"
            /\ UNCHANGED <<visited, parent, level, traversal_order, queue>>
    /\ UNCHANGED <<V, adj_list, CompVars, PathVars>>

BfsStep ==
    /\ pc = "bfs"
    /\ queue # << >>
    /\ LET st == bfs_iter(BfsFrame)
       IN  /\ visited' = st.visited
           /\ parent' = st.parent
           /\ level' = st.level
           /\ traversal_order' = st.traversal_order
           /\ queue' = st.queue
    /\ UNCHANGED <<V, adj_list, pc, start, CompVars, PathVars>>

BfsReturn ==
    /\ pc = "bfs"
    /\ queue = << >>
    /\ pc' = "bfs_done"
    /\ UNCHANGED <<V, adj_list, visited, queue, BfsVars, CompVars, PathVars>>

CallComp ==
    /\ pc = "idle"
    /\ visited' = Fill(FALSE)
    /\ all_components' = << >>
    /\ i' = 0
    /\ pc' = "comp_for"
    /\ UNCHANGED <<V, adj_list, queue, component, BfsVars, PathVars>>

CompFor ==
    /\ pc = "comp_for"
    /\ i < V
    /\ IF NeedsRoot(visited, i)
       THEN LET st == comp_seed(visited, i)
            IN  /\ visited' = st.visited
                /\ queue' = st.queue
                /\ component' = st.component
                /\ pc' = "comp_while"
                /\ UNCHANGED i
       ELSE /\ i' = i + 1
            /\ UNCHANGED <<pc, visited, queue, component>>
    /\ UNCHANGED <<V, adj_list, all_components, BfsVars, PathVars>>

CompWhile ==
    /\ pc = "comp_while"
    /\ queue # << >>
    /\ LET st == comp_iter(CompFrame)
       IN  /\ visited' = st.visited
           /\ queue' = st.queue
           /\ component' = st.component
    /\ UNCHANGED <<V, adj_list, pc, i, all_components, BfsVars, PathVars>>

CompAppend ==
    /\ pc = "comp_while"
    /\ queue = << >>
    /\ all_components' = Append(all_components, component)
    /\ i' = i + 1
    /\ pc' = "comp_for"
    /\ UNCHANGED <<V, adj_list, visited, queue, component, BfsVars, PathVars>>

CompReturn ==
    /\ pc = "comp_for"
    /\ i >= V
    /\ pc' = "comp_done"
    /\ UNCHANGED <<V, adj_list, visited, queue, BfsVars, CompVars, PathVars>>

\* reconstruct_path(start, end, parent) with the parent list the preceding
\* bfs(start) returned.
CallReconstruct(e) ==
    /\ pc = "bfs_done"
    /\ endArg' = e
    /\ end' = e
    /\ path' = << >>
    /\ ret' = << >>
    /\ pc' = "path"
    /\ UNCHANGED <<V, adj_list, visited, queue, BfsVars, CompVars>>

PathStep ==
    /\ pc = "path"
    /\ end # -1
    /\ path' = Append(path, end)
    /\ IF InRange(end)
       THEN /\ end' = PyGet(parent, end)
            /\ pc' = "path"
       ELSE \* parent[end] raises IndexError (line 69)
            /\ pc' = "path_error"
            /\ UNCHANGED end
    /\ UNCHANGED <<V, adj_list, visited, queue, BfsVars, CompVars, endArg, ret>>

PathReturn ==
    /\ pc = "path"
    /\ end = -1
    /\ path' = FinishPath(path)
    /\ IF path' = << >>
       THEN \* path[0] raises IndexError on the empty list (line 72)
            /\ pc' = "path_error"
            /\ UNCHANGED ret
       ELSE /\ ret' = ReturnPath(path', start)
            /\ pc' = "path_done"
    /\ UNCHANGED <<V, adj_list, visited, queue, BfsVars, CompVars, endArg, end>>

\* The caller drops the results; the graph stays.
Reset ==
    /\ pc \in {"bfs_done", "bfs_error", "comp_done", "path_done", "path_error"}
    /\ pc' = "idle"
    /\ start' = 0
    /\ visited' = Fill(FALSE)
    /\ parent' = Fill(-1)
    /\ level' = Fill(-1)
    /\ traversal_order' = << >>
    /\ queue' = << >>
    /\ i' = 0
    /\ component' = << >>
    /\ all_components' = << >>
    /\ endArg' = 0
    /\ end' = 0
    /\ path' = << >>
    /\ ret' = << >>
    /\ UNCHANGED <<V, adj_list>>

Run ==
    \/ BfsStep
    \/ BfsReturn
    \/ CompFor
    \/ CompWhile
    \/ CompAppend
    \/ CompReturn
    \/ PathStep
    \/ PathReturn

\* The program called with arguments in 0..V-1.
Next ==
    \/ \E u, v \in Vertices : \E b \in BOOLEAN : AddEdge(u, v, b)
    \/ \E s \in Vertices : CallBfs(s)
    \/ CallComp
    \/ \E e \in Vertices : CallReconstruct(e)
    \/ Run
    \/ Reset

Spec == Init /\ [][Next]_vars

\* The program called with any argument of Indices.
AnyNext ==
    \/ \E u, v \in Vertices : \E b \in BOOLEAN : AddEdge(u, v, b)
    \/ \E s \in Indices : CallBfs(s)
    \/ CallComp
    \/ \E e \in Indices : CallReconstruct(e)
    \/ Run
    \/ Reset

AnySpec == Init /\ [][AnyNext]_vars

\* The program called with arguments in 0..V-1, under fairness.  A call,
\* once made, runs to completion: the program is single-threaded and
\* synchronous, nothing can suspend a loop.
TermNext ==
    \/ \E u, v \in Vertices : \E b \in BOOLEAN :
          AddEdgeWithin(TermEntries, u, v, b)
    \/ \E s \in Vertices : CallBfs(s)
    \/ CallComp
    \/ \E e \in Vertices : CallReconstruct(e)
    \/ Run
    \/ Reset

TermSpec == Init /\ [][TermNext]_vars /\ WF_vars(Run)

----------------------------------------------------------------------------
\* Graph-theoretic notions the properties are stated with.

Edge(u, v) == v \in Range(adj_list[u])

Succ(S) == {v \in Vertices : \E u \in S : Edge(u, v)}

RECURSIVE Closure(_)
Closure(S) == LET N == S \cup Succ(S) IN IF N = S THEN S ELSE Closure(N)

Reachable(s) == Closure({s})

\* Vertices that a walk of at most k edges from s ends in.
RECURSIVE Within(_, _)
Within(s, k) ==
    IF k = 0 THEN {s} ELSE LET W == Within(s, k - 1) IN W \cup Succ(W)

Dist(s, v) ==
    CHOOSE k \in 0 .. V : v \in Within(s, k) /\ (k = 0 \/ v \notin Within(s, k - 1))

Pos(s, x) == CHOOSE k \in 1 .. Len(s) : s[k] = x

RECURSIVE Flatten(_)
Flatten(ss) == IF ss = << >> THEN << >> ELSE Head(ss) \o Flatten(Tail(ss))

Symmetric == \A u, v \in Vertices : Edge(u, v) <=> Edge(v, u)

ValidBfsDone == pc = "bfs_done" /\ start \in Vertices

ValidPathDone == pc = "path_done" /\ start \in Vertices /\ endArg \in Vertices

----------------------------------------------------------------------------
\* C1: when bfs(start) returns for a valid start, traversal_order holds
\* exactly the vertices reachable from start, each once; every unreachable
\* vertex has level -1 and parent -1 and is not in traversal_order; every
\* vertex in traversal_order has level >= 0.
C1_VisitOrderIsReachableSet ==
    ValidBfsDone =>
        /\ Range(traversal_order) = Reachable(start)
        /\ NoDup(traversal_order)
        /\ \A v \in Vertices \ Reachable(start) :
              /\ level[v] = -1
              /\ parent[v] = -1
              /\ v \notin Range(traversal_order)
        /\ \A v \in Range(traversal_order) : level[v] >= 0

C1_Witness ==
    /\ ValidBfsDone
    /\ Len(traversal_order) >= 2
    /\ Reachable(start) # Vertices
    /\ \E u \in Reachable(start) : Len(adj_list[u]) >= 2

\* C2: when bfs(start) returns for a valid start, level[v] of every
\* reachable v is the least number of edges of a path from start to v.
C2_LevelIsDistance ==
    ValidBfsDone => \A v \in Reachable(start) : level[v] = Dist(start, v)

\* Two vertices at distance 1 with an edge between them: a longer route to
\* the second exists and is met during the traversal.
C2_Witness ==
    /\ ValidBfsDone
    /\ \E u, v \in Vertices :
          u # v /\ level[u] = 1 /\ level[v] = 1 /\ Edge(u, v)

\* C3: when bfs(start) returns for a valid start, every reached vertex other
\* than start has a parent in range, one level above it and earlier in
\* traversal_order; start has parent -1 and level 0.
C3_ParentOneLevelUp ==
    ValidBfsDone =>
        /\ parent[start] = -1
        /\ level[start] = 0
        /\ \A v \in Range(traversal_order) \ {start} :
              /\ parent[v] \in Vertices
              /\ level[v] = level[parent[v]] + 1
              /\ parent[v] \in Range(traversal_order)
              /\ Pos(traversal_order, parent[v]) < Pos(traversal_order, v)

\* The source lies on a cycle or carries a self-loop, and something else is
\* reached.
C3_Witness ==
    /\ ValidBfsDone
    /\ Len(traversal_order) >= 2
    /\ \E u \in Reachable(start) : Edge(u, start)

C5_ComponentsPartition ==
    pc = "comp_done" =>
        /\ Range(Flatten(all_components)) = Vertices
        /\ NoDup(Flatten(all_components))
        /\ \A k \in 1 .. Len(all_components) : all_components[k] # << >>
        /\ Len(Flatten(all_components)) = V

\* A graph with a directed edge into a vertex of an earlier component.
C5_Witness ==
    /\ pc = "comp_done"
    /\ Len(all_components) >= 2
    /\ \E k \in 1 .. Len(all_components) : Len(all_components[k]) >= 2
    /\ \E u, v \in Vertices : u > v /\ Edge(u, v) /\ ~Edge(v, u)

\* C6: reconstruct_path(start, end, parent), with parent returned by
\* bfs(start) and valid start and end, returns a non-empty sequence from
\* start to end when end is reachable from start and the empty sequence
\* when it is not; it raises nothing.
C6_PathEndpoints ==
    /\ ValidPathDone =>
          IF endArg \in Reachable(start)
          THEN ret # << >> /\ ret[1] = start /\ ret[Len(ret)] = endArg
          ELSE ret = << >>
    /\ pc = "path_error" => ~(start \in Vertices /\ endArg \in Vertices)

C6_Witness ==
    /\ ValidPathDone
    /\ Len(ret) = 3
    /\ Reachable(start) = Vertices

\* C7: the sequence reconstruct_path returns for a reachable end follows
\* edges of the graph, repeats no vertex, and has level[end] + 1 vertices,
\* which is one more than the distance from start to end;
\* reconstruct_path(s, s, parent) returns <<s>>.
C7_PathIsShortest ==
    (ValidPathDone /\ endArg \in Reachable(start)) =>
        /\ \A k \in 1 .. (Len(ret) - 1) : Edge(ret[k], ret[k + 1])
        /\ NoDup(ret)
        /\ Len(ret) = level[endArg] + 1
        /\ Len(ret) = Dist(start, endArg) + 1
        /\ endArg = start => ret = << start >>

\* A two-edge path found although the end has another, unused, way in.
C7_Witness ==
    /\ ValidPathDone
    /\ Len(ret) = 3
    /\ Cardinality({u \in Vertices : Edge(u, endArg)}) >= 2

\* C8: bfs(start) with start outside 0..V-1, and reconstruct_path with
\* start or end outside 0..V-1, never return a result.
C8_OutOfRangeFails ==
    /\ pc = "bfs_done" => start \in Vertices
    /\ pc = "path_done" => (start \in Vertices /\ endArg \in Vertices)

\* C9: with valid arguments every call terminates: bfs and
\* bfs_all_components enqueue no vertex twice and return, and the walk of
\* reconstruct_path along parent visits no vertex twice and returns.
EnqueuedOnce ==
    /\ pc \in {"bfs", "bfs_done"} => NoDup(traversal_order \o queue)
    /\ pc = "comp_while" =>
          NoDup(Flatten(all_components) \o component \o queue)
    /\ pc \in {"comp_for", "comp_done"} => NoDup(Flatten(all_components))
    /\ pc \in {"path", "path_done"} => NoDup(path)

C9_Terminates ==
    /\ [](EnqueuedOnce /\ pc \notin {"bfs_error", "path_error"})
    /\ (pc \in {"bfs", "comp_for", "comp_while", "path"})
          ~> (pc \in {"bfs_done", "comp_done", "path_done"})

\* A path of two edges returned on a graph where the source lies on a cycle.
C9_Witness ==
    /\ pc = "path_done"
    /\ Len(ret) >= 2
    /\ \E u \in Reachable(start) : Edge(u, start)
    /\ \E u \in Vertices : Len(adj_list[u]) >= 2

\* C10: on a graph whose every edge has its reverse (all a graph built with
\* bidirectional add_edge calls can be), the components bfs_all_components()
\* returns are the connected components: two vertices share a component iff
\* each reaches the other; the first elements of the components increase;
\* each is the least vertex of its component; each component is the
\* traversal_order of bfs from its first element.
CompOf(v) ==
    CHOOSE k \in 1 .. Len(all_components) : v \in Range(all_components[k])

====
